---- MODULE Spec2Model ----
(***************************************************************************)
(* Model of scripts/convert.py: the command-line client of the             *)
(* gif-converter service.  One invocation of main() is a "run".  Every     *)
(* per-run variable is a function over the set of runs, Runs; the server   *)
(* and the file system are the environment, whose answers are drawn with   *)
(* \E inside the action that receives them.  All runs that stand at the    *)
(* same program position receive the same answer in the same step, so two  *)
(* runs started on the same arguments see the same scripted server.        *)
(*                                                                         *)
(* Time is counted in ticks of one poll interval (time.sleep(0.5)).        *)
(***************************************************************************)
EXTENDS Integers, Sequences, FiniteSets, TLC

VARIABLES
    args,           \* the parsed command line (shared by the runs)
    env,            \* what the file system and the server last answered
    show_progress,  \* main: show_progress = not args.no_progress
    options,        \* main: options, Null until it is built
    pc,             \* position of each run in main() and its callees
    exit_code,      \* process exit status, -1 while the run is alive
    result,         \* the exception that ended the run, NoError if none
    reqs,           \* HTTP requests the run has issued, in order
    handles,        \* upload_file: the file objects currently open
    job_id,         \* main: job_id returned by upload_file
    now,            \* time.time(), in ticks
    start_time,     \* wait_for_completion: start_time
    job,            \* wait_for_completion: job, the last snapshot fetched
    returned,       \* main: job, the snapshot wait_for_completion returned
    sleeps,         \* number of time.sleep(0.5) calls performed
    term,           \* the terminal's current line (last print_progress call)
    ncalls,         \* number of print_progress calls made
    total_size,     \* download_file: total_size
    downloaded,     \* download_file: downloaded
    stream,         \* chunks the server has delivered to download_file
    dest,           \* content of the destination file, NoFile if absent
    percents        \* percent values download_file passed to print_progress

vars == <<args, env, show_progress, options, pc, exit_code, result, reqs, handles, job_id,
          now, start_time, job, returned, sleeps, term, ncalls, total_size,
          downloaded, stream, dest, percents>>

Runs == DOMAIN show_progress

-----------------------------------------------------------------------------
(* Bounds of the model *)

MaxTimeout == 1     \* --timeout ranges over 0..MaxTimeout seconds
MaxLatency == 1     \* a status GET takes 0..MaxLatency ticks
MaxBytes == 4       \* a download delivers at most MaxBytes bytes, in chunks
MaxDegrees == 360   \* rotate_to_transpose is applied to -MaxDegrees..MaxDegrees

(* Program constants *)

TicksPerSecond == 2     \* time.sleep(0.5): one tick is half a second
bar_width == 30

-----------------------------------------------------------------------------
(* JSON / Python values.  A dict is a record over all the keys the program *)
(* reads; a key that is absent from the dict holds Missing.                *)

Str(s) == [t |-> "str", s |-> s]
Num(n) == [t |-> "int", n |-> n]
Null == [t |-> "null"]
Missing == [t |-> "missing"]
List(q) == [t |-> "list", q |-> q]
NotJson == [t |-> "notjson"]

\* dict.get(key, default)
DictGet(d, key, default) == IF d[key] = Missing THEN default ELSE d[key]

\* Python truthiness of a value: None, "", 0 and [] are falsy
Truthy(v) ==
    CASE v.t = "str" -> v.s # ""
      [] v.t = "int" -> v.n # 0
      [] v.t = "list" -> v.q # <<>>
      [] OTHER -> FALSE

\* str(v) as an f-string formats it
Fmt(v) ==
    CASE v.t = "str" -> v.s
      [] v.t = "null" -> "None"
      [] OTHER -> "?"

\* int(a / b): true division, then truncation towards zero
IntDiv(a, b) == IF a >= 0 THEN a \div b ELSE -((-a) \div b)

-----------------------------------------------------------------------------
(* Exceptions and how main() ends on them *)

NoError == [type |-> "none", prefix |-> "", detail |-> ""]
Err(type, prefix, detail) == [type |-> type, prefix |-> prefix, detail |-> detail]

\* a handler that reports every exception but the interrupt as success
MainHandlerSuccess(e) == IF e.type = "KeyboardInterrupt" THEN 130 ELSE 0

\* main: except KeyboardInterrupt -> 130, except Exception -> 1;
\* SystemExit carries its own code (1 at every sys.exit of the script)
MainHandler(e) == IF e.type = "KeyboardInterrupt" THEN 130 ELSE 1

\* what one run does in one step: where it goes, or the exception it raises
Goto(p) == [pc |-> p, result |-> NoError, exit_code |-> -1]
Raise(e) == [pc |-> "exited", result |-> e, exit_code |-> MainHandler(e)]
Exit(code) == [pc |-> "exited", result |-> NoError, exit_code |-> code]

Somebody(p) == \E r \in Runs : pc[r] = p
Upd(f, p, G(_)) == [r \in Runs |-> IF pc[r] = p THEN G(r) ELSE f[r]]
Control(p, eff(_)) ==
    /\ pc' = Upd(pc, p, LAMBDA r : eff(r).pc)
    /\ result' = Upd(result, p, LAMBDA r : eff(r).result)
    /\ exit_code' = Upd(exit_code, p, LAMBDA r : eff(r).exit_code)

Req(method, path, id, body) == [method |-> method, path |-> path, id |-> id, body |-> body]
NoBody == [fields |-> {}, options |-> Null]

-----------------------------------------------------------------------------
(* rotate_to_transpose and the options main() builds *)

\* the table with the codes of 180 and 270 degrees exchanged
rotate_swapped(degrees) ==
    CASE degrees = 0 -> 0
      [] degrees = 90 -> 1
      [] degrees = 180 -> 2
      [] degrees = 270 -> 3
      [] OTHER -> 0

rotate_to_transpose(degrees) ==
    CASE degrees = 0 -> 0
      [] degrees = 90 -> 1
      [] degrees = 270 -> 2
      [] degrees = 180 -> 3
      [] OTHER -> 0

\* json.dumps(options): the fields the model distinguishes
BuildOptions(a) == [transpose |-> rotate_to_transpose(a.rotate),
                    background_image_id |-> Null]

-----------------------------------------------------------------------------
(* The command line *)

RotateChoices == {90}
BgImages == {"none", "present", "absent"}
Outputs == {"none", "out.gif"}

ArgSets == [input : {"video.mp4"}, input_exists : BOOLEAN, bg_image : BgImages,
            url_only : BOOLEAN, output : Outputs, rotate : RotateChoices,
            timeout : 0..MaxTimeout]

NoFile == [t |-> "nofile"]
File(path, chunks) == [t |-> "file", path |-> path, chunks |-> chunks]
NoLine == [status |-> "", progress |-> 0, current_pass |-> 0, filled |-> 0,
           empty |-> 0, pass_info |-> "", end |-> ""]
NoJob == [status |-> Missing, progress |-> Missing, current_pass |-> Missing,
          error_message |-> Missing]

\* nothing has been asked of the environment yet
NoAnswers == [sigint |-> FALSE,
              health |-> "none",
              opened |-> "none",
              upload |-> [o |-> "none", ok |-> FALSE, text |-> ""],
              polls |-> 0,
              status |-> [o |-> "none", j |-> NoJob],
              dl |-> "none",
              cl |-> Missing]

\* the runs R before main has done anything, the output path holding `file`
InitRunsOn(R, file) ==
    /\ env = [r \in R |-> NoAnswers]
    /\ pc = [r \in R |-> "validate"]
    /\ options = [r \in R |-> Null]
    /\ exit_code = [r \in R |-> -1]
    /\ result = [r \in R |-> NoError]
    /\ reqs = [r \in R |-> <<>>]
    /\ handles = [r \in R |-> {}]
    /\ job_id = [r \in R |-> Null]
    /\ now = [r \in R |-> 0]
    /\ start_time = [r \in R |-> 0]
    /\ job = [r \in R |-> NoJob]
    /\ returned = [r \in R |-> NoJob]
    /\ sleeps = [r \in R |-> 0]
    /\ term = [r \in R |-> NoLine]
    /\ ncalls = [r \in R |-> 0]
    /\ total_size = [r \in R |-> 0]
    /\ downloaded = [r \in R |-> 0]
    /\ stream = [r \in R |-> <<>>]
    /\ dest = [r \in R |-> file]
    /\ percents = [r \in R |-> <<>>]

\* no file exists yet at the output path
InitRuns(R) == InitRunsOn(R, NoFile)

\* one invocation, with or without --no-progress
Init ==
    /\ args \in ArgSets
    /\ show_progress \in [{1} -> BOOLEAN]
    /\ InitRuns({1})

-----------------------------------------------------------------------------
(* main, lines 232-255: validation of the input paths *)

Validate ==
    /\ Somebody("validate")
    /\ LET eff(r) ==
            IF ~args.input_exists THEN Exit(1)
            ELSE IF args.bg_image # "none" /\ args.bg_image # "present" THEN Exit(1)
            ELSE Goto("health")
       IN /\ Control("validate", eff)
          /\ options' = Upd(options, "validate",
                 LAMBDA r : IF eff(r).pc = "health" THEN BuildOptions(args)
                            ELSE options[r])
    /\ UNCHANGED <<args, env, show_progress, reqs, handles, job_id, now, start_time,
                   job, returned, sleeps, term, ncalls, total_size, downloaded,
                   stream, dest, percents>>

(* main, lines 258-265: the health check.  Only a connection failure is    *)
(* caught here; the status of the answer is not looked at.                 *)

HealthOutcomes == {"ok", "http_error", "conn_error", "read_timeout"}

\* line 261: any answer, whatever its status, means the server was reached
Reached(o) == IF o \in {"ok", "http_error"} THEN "reached" ELSE o

HealthCheck ==
    /\ Somebody("health")
    /\ \E o \in HealthOutcomes :
        LET eff(r) ==
              CASE o = "conn_error" -> Exit(1)
                [] o = "read_timeout" -> Raise(Err("ReadTimeout", "", "health"))
                [] OTHER -> Goto("upload_open")
        IN /\ Control("health", eff)
           /\ reqs' = Upd(reqs, "health",
                          LAMBDA r : Append(reqs[r], Req("GET", "/api/health", Null, NoBody)))
           /\ env' = Upd(env, "health",
                  LAMBDA r : [env[r] EXCEPT !.health = Reached(o)])
    /\ UNCHANGED <<args, show_progress, options, handles, job_id, now, start_time,
                   job, returned, sleeps, term, ncalls, total_size, downloaded,
                   stream, dest, percents>>

-----------------------------------------------------------------------------
(* upload_file, lines 165-172: the file objects are opened.  The source    *)
(* file may fail to open; the background image is opened only if a path    *)
(* was given and os.path.exists finds it at this moment.                   *)

OpenOutcomes == {"opened", "file_error", "bg_gone", "bg_error"}

UploadOpen ==
    /\ Somebody("upload_open")
    /\ \E o \in OpenOutcomes :
        /\ o \in {"bg_gone", "bg_error"} => args.bg_image = "present"
        /\ LET eff(r) ==
                 IF o \in {"file_error", "bg_error"}
                 THEN Raise(Err("OSError", "", o))
                 ELSE Goto("upload_post")
               opened(r) ==
                 CASE o = "file_error" -> {}
                   [] o = "bg_gone" \/ o = "bg_error" -> {"files"}
                   [] OTHER -> IF args.bg_image = "present"
                               THEN {"files", "background"} ELSE {"files"}
           IN /\ Control("upload_open", eff)
              /\ handles' = Upd(handles, "upload_open", opened)
              /\ env' = Upd(env, "upload_open",
                     LAMBDA r : [env[r] EXCEPT !.opened = o])
    /\ UNCHANGED <<args, show_progress, options, reqs, job_id, now, start_time,
                   job, returned, sleeps, term, ncalls, total_size, downloaded,
                   stream, dest, percents>>

(* The bodies the upload endpoint may answer with, as raw text, and what   *)
(* response.json() makes of each.                                          *)

Obj(error, jobs) == [t |-> "dict", error |-> error, jobs |-> jobs]
JobRef(id) == [id |-> id]

UploadTexts == {"oops", "[]", "{}", "{error: bad file}", "{error: null}",
                "{jobs: []}", "{jobs: null}", "{jobs: [{}]}",
                "{jobs: [{id: abc123}]}",
                "{jobs: [{id: abc123}, {id: def456}]}"}

ParseJson(text) ==
    CASE text = "[]" -> List(<<>>)
      [] text = "{}" -> Obj(Missing, Missing)
      [] text = "{error: bad file}" -> Obj(Str("bad file"), Missing)
      [] text = "{error: null}" -> Obj(Null, Missing)
      [] text = "{jobs: []}" -> Obj(Missing, List(<<>>))
      [] text = "{jobs: null}" -> Obj(Missing, Null)
      [] text = "{jobs: [{}]}" -> Obj(Missing, List(<<JobRef(Missing)>>))
      [] text = "{jobs: [{id: abc123}]}" ->
             Obj(Missing, List(<<JobRef(Str("abc123"))>>))
      [] text = "{jobs: [{id: abc123}, {id: def456}]}" ->
             Obj(Missing, List(<<JobRef(Str("abc123")), JobRef(Str("def456"))>>))
      [] OTHER -> NotJson

UploadResponses == [ok : BOOLEAN, text : UploadTexts]

\* the raw body is reported without looking for an error field
UploadErrorTextRaw(resp) == Str(resp.text)

\* lines 188-191: response.json().get("error", response.text), any failure
\* of which falls back to response.text
UploadErrorText(resp) ==
    LET body == ParseJson(resp.text)
    IN IF body.t = "dict" THEN DictGet(body, "error", Str(resp.text))
       ELSE Str(resp.text)

\* the last listed job is taken instead of the first
UploadResultLastJob(resp) ==
    LET body == ParseJson(resp.text)
        jobs == DictGet(body, "jobs", List(<<>>))
    IN IF ~resp.ok
       THEN [ctl |-> Raise(Err("RuntimeError", "Upload failed: ",
                               Fmt(UploadErrorText(resp)))), id |-> Null]
       ELSE IF body.t = "notjson"
       THEN [ctl |-> Raise(Err("JSONDecodeError", "", resp.text)), id |-> Null]
       ELSE IF body.t # "dict"
       THEN [ctl |-> Raise(Err("AttributeError", "", "get")), id |-> Null]
       ELSE IF ~Truthy(jobs)
       THEN [ctl |-> Raise(Err("RuntimeError", "No job created", "")), id |-> Null]
       ELSE IF jobs.q[Len(jobs.q)].id = Missing
       THEN [ctl |-> Raise(Err("KeyError", "", "id")), id |-> Null]
       ELSE [ctl |-> Goto("poll_start"), id |-> jobs.q[Len(jobs.q)].id]

\* lines 187-200: what upload_file makes of a response
UploadResult(resp) ==
    LET body == ParseJson(resp.text)
        jobs == DictGet(body, "jobs", List(<<>>))
    IN IF ~resp.ok
       THEN [ctl |-> Raise(Err("RuntimeError", "Upload failed: ",
                               Fmt(UploadErrorText(resp)))), id |-> Null]
       ELSE IF body.t = "notjson"
       THEN [ctl |-> Raise(Err("JSONDecodeError", "", resp.text)), id |-> Null]
       ELSE IF body.t # "dict"
       THEN [ctl |-> Raise(Err("AttributeError", "", "get")), id |-> Null]
       ELSE IF ~Truthy(jobs)
       THEN [ctl |-> Raise(Err("RuntimeError", "No job created", "")), id |-> Null]
       ELSE IF jobs.q[1].id = Missing
       THEN [ctl |-> Raise(Err("KeyError", "", "id")), id |-> Null]
       ELSE [ctl |-> Goto("poll_start"), id |-> jobs.q[1].id]

\* lines 167-176: the multipart fields of the request
UploadFields(opened) == opened \cup {"options"}

(* upload_file, lines 174-200: the POST, the closing of the file objects   *)
(* (reached only if the POST returned) and the reading of the response.    *)

UploadPost ==
    /\ Somebody("upload_post")
    /\ \E o \in {"conn_error", "response"}, resp \in UploadResponses :
        LET res(r) == IF o = "conn_error"
                      THEN [ctl |-> Raise(Err("ConnectionError", "", "upload")),
                            id |-> Null]
                      ELSE UploadResult(resp)
            eff(r) == res(r).ctl
        IN /\ Control("upload_post", eff)
           /\ reqs' = Upd(reqs, "upload_post",
                  LAMBDA r : Append(reqs[r],
                      Req("POST", "/api/upload", Null,
                          [fields |-> UploadFields(handles[r]),
                           options |-> options[r]])))
           /\ handles' = Upd(handles, "upload_post",
                  LAMBDA r : IF o = "conn_error" THEN handles[r] ELSE {})
           /\ job_id' = Upd(job_id, "upload_post", LAMBDA r : res(r).id)
           /\ env' = Upd(env, "upload_post",
                  LAMBDA r : [env[r] EXCEPT !.upload =
                                 IF o = "conn_error"
                                 THEN [o |-> o, ok |-> FALSE, text |-> ""]
                                 ELSE [o |-> o, ok |-> resp.ok, text |-> resp.text]])
    /\ UNCHANGED <<args, show_progress, options, now, start_time,
                   job, returned, sleeps, term, ncalls, total_size, downloaded,
                   stream, dest, percents>>

-----------------------------------------------------------------------------
(* print_progress, lines 108-116 *)

Max0(n) == IF n > 0 THEN n ELSE 0

\* the rendered line, or the TypeError of arithmetic on a non-number
print_progress(status, progress, current_pass, end) ==
    IF progress.t # "int" \/ current_pass.t # "int"
    THEN [ok |-> FALSE, err |-> Err("TypeError", "", "print_progress")]
    ELSE LET filled == IntDiv(bar_width * progress.n, 100)
         IN [ok |-> TRUE,
             line |-> [status |-> status,
                       progress |-> progress.n,
                       current_pass |-> current_pass.n,
                       filled |-> Max0(filled),
                       empty |-> Max0(bar_width - filled),
                       pass_info |-> IF current_pass.n > 0
                                     THEN " (Pass " \o ToString(current_pass.n) \o "/3)"
                                     ELSE "",
                       end |-> end]]

-----------------------------------------------------------------------------
(* wait_for_completion, lines 119-158 *)

StatusStrings == {"uploading", "queued", "processing", "compressing",
                  "completed", "failed", "paused"}

\* str.title() on the strings a status can be
Title(s) ==
    CASE s = "uploading" -> "Uploading"
      [] s = "queued" -> "Queued"
      [] s = "processing" -> "Processing"
      [] s = "compressing" -> "Compressing"
      [] s = "completed" -> "Completed"
      [] s = "failed" -> "Failed"
      [] s = "paused" -> "Paused"
      [] s = "unknown" -> "Unknown"
      [] OTHER -> s

\* lines 138-145: {...}.get(status, status.title()); the default is
\* evaluated before the lookup, so status must be a string
StatusDisplay(status) ==
    IF status.t # "str"
    THEN [ok |-> FALSE, err |-> Err("AttributeError", "", "title")]
    ELSE [ok |-> TRUE,
          v |-> CASE status.s = "uploading" -> "Uploading"
                  [] status.s = "queued" -> "Queued"
                  [] status.s = "processing" -> "Processing"
                  [] status.s = "compressing" -> "Compressing"
                  [] status.s = "completed" -> "Completed"
                  [] status.s = "failed" -> "Failed"
                  [] OTHER -> Title(status.s)]

\* lines 137-146: the progress line of one poll, when progress is shown
Report(show, j) ==
    LET status == DictGet(j, "status", Str("unknown"))
        progress == DictGet(j, "progress", Num(0))
        current_pass == DictGet(j, "current_pass", Num(0))
        disp == StatusDisplay(status)
        shown == print_progress(disp.v, progress, current_pass, "\r")
    IN IF ~show THEN [ok |-> TRUE, lines |-> <<>>]
       ELSE IF ~disp.ok THEN [ok |-> FALSE, err |-> disp.err]
       ELSE IF ~shown.ok THEN [ok |-> FALSE, err |-> shown.err]
       ELSE [ok |-> TRUE, lines |-> <<shown.line>>]

\* line 155: job.get("error_message", "Unknown error")
ErrorMsg(j) == DictGet(j, "error_message", Str("Unknown error"))

\* the budget is taken to be used up as soon as it is reached
TimedOutEarly(elapsed, timeout) == elapsed >= TicksPerSecond * timeout

\* the budget is overrun by one poll interval before it counts as used up
TimedOutLate(elapsed, timeout) == elapsed > TicksPerSecond * timeout + 1

\* line 126: time.time() - start_time > timeout
TimedOut(elapsed, timeout) == elapsed > TicksPerSecond * timeout

\* a loop that treats "completed" like any other status
PollBodyKeepsPolling(show, j) ==
    LET status == DictGet(j, "status", Str("unknown"))
        rep == Report(show, j)
    IN IF ~rep.ok THEN [ctl |-> Raise(rep.err), lines |-> <<>>]
       ELSE IF status = Str("failed")
       THEN [ctl |-> Raise(Err("RuntimeError", "Conversion failed: ",
                               Fmt(ErrorMsg(j)))),
             lines |-> rep.lines]
       ELSE [ctl |-> Goto("poll_sleep"), lines |-> rep.lines]

\* a loop that hands a failed job to the download like a completed one
PollBodyDownloadsFailed(show, j) ==
    LET status == DictGet(j, "status", Str("unknown"))
        rep == Report(show, j)
        done == print_progress("Completed", Num(100), Num(0), "\n")
    IN IF ~rep.ok THEN [ctl |-> Raise(rep.err), lines |-> <<>>]
       ELSE IF status = Str("completed")
       THEN [ctl |-> Goto("output"),
             lines |-> IF show THEN rep.lines \o <<done.line>> ELSE rep.lines]
       ELSE IF status = Str("failed")
       THEN [ctl |-> Goto("output"), lines |-> rep.lines]
       ELSE [ctl |-> Goto("poll_sleep"), lines |-> rep.lines]

\* a loop that sleeps once more after a failed snapshot
PollBodySleepsAfterFailed(show, j) ==
    LET status == DictGet(j, "status", Str("unknown"))
        rep == Report(show, j)
        done == print_progress("Completed", Num(100), Num(0), "\n")
    IN IF ~rep.ok THEN [ctl |-> Raise(rep.err), lines |-> <<>>]
       ELSE IF status = Str("completed")
       THEN [ctl |-> Goto("output"),
             lines |-> IF show THEN rep.lines \o <<done.line>> ELSE rep.lines]
       ELSE [ctl |-> Goto("poll_sleep"), lines |-> rep.lines]

\* a loop that fails on a status it does not know
PollBodyStrict(show, j) ==
    LET status == DictGet(j, "status", Str("unknown"))
        rep == Report(show, j)
        done == print_progress("Completed", Num(100), Num(0), "\n")
        known == {Str("uploading"), Str("queued"), Str("processing"),
                  Str("compressing")}
    IN IF ~rep.ok THEN [ctl |-> Raise(rep.err), lines |-> <<>>]
       ELSE IF status = Str("completed")
       THEN [ctl |-> Goto("output"),
             lines |-> IF show THEN rep.lines \o <<done.line>> ELSE rep.lines]
       ELSE IF status = Str("failed")
       THEN [ctl |-> Raise(Err("RuntimeError", "Conversion failed: ",
                               Fmt(ErrorMsg(j)))),
             lines |-> rep.lines]
       ELSE IF status \notin known
       THEN [ctl |-> Raise(Err("ValueError", "", "status")), lines |-> rep.lines]
       ELSE [ctl |-> Goto("poll_sleep"), lines |-> rep.lines]

\* lines 133-158: what one iteration makes of the snapshot it fetched
PollBody(show, j) ==
    LET status == DictGet(j, "status", Str("unknown"))
        rep == Report(show, j)
        done == print_progress("Completed", Num(100), Num(0), "\n")
    IN IF ~rep.ok THEN [ctl |-> Raise(rep.err), lines |-> <<>>]
       ELSE IF status = Str("completed")
       THEN [ctl |-> Goto("output"),
             lines |-> IF show THEN rep.lines \o <<done.line>> ELSE rep.lines]
       ELSE IF status = Str("failed")
       THEN [ctl |-> Raise(Err("RuntimeError", "Conversion failed: ",
                               Fmt(ErrorMsg(j)))),
             lines |-> rep.lines]
       ELSE [ctl |-> Goto("poll_sleep"), lines |-> rep.lines]

Statuses == {Str(s) : s \in StatusStrings} \cup {Null, Missing}
Progresses == {Num(0), Num(50), Num(100), Null, Missing}
Passes == {Num(0), Num(2), Null, Missing}
ErrorMessages == {Str("boom"), Str(""), Null, Missing}

\* the snapshots the job endpoint answers with: error_message accompanies
\* a failed job and current_pass a processing one; the progress field takes
\* every shape on a processing job, is 100 or null on a completed one and 0
\* on the others
Snapshots ==
    {j \in [status : Statuses, progress : Progresses,
            current_pass : Passes, error_message : ErrorMessages] :
        /\ j.error_message # Missing => j.status = Str("failed")
        /\ j.current_pass # Missing =>
               j.status = Str("processing") /\ j.progress = Num(50)
        /\ j.status = Str("completed") => j.progress \in {Num(100), Null}
        /\ j.status \notin {Str("processing"), Str("completed")} =>
               j.progress = Num(0)}

\* what a status GET may end in: a snapshot after 0..MaxLatency ticks, a
\* connection failure, or a non-2xx answer (raise_for_status)
PollInputs ==
    [o : {"json"}, j : Snapshots, d : 0..MaxLatency]
        \cup [o : {"conn_error", "http_error"}, j : {NoJob}, d : {0}]

PollStart ==
    /\ Somebody("poll_start")
    /\ Control("poll_start", LAMBDA r : Goto("poll_check"))
    /\ start_time' = Upd(start_time, "poll_start", LAMBDA r : now[r])
    /\ UNCHANGED <<args, env, show_progress, options, reqs, handles, job_id, now,
                   job, returned, sleeps, term, ncalls, total_size, downloaded,
                   stream, dest, percents>>

PollCheck ==
    /\ Somebody("poll_check")
    /\ LET eff(r) ==
             IF TimedOut(now[r] - start_time[r], args.timeout)
             THEN Raise(Err("TimeoutError", "Job timed out after ",
                            ToString(args.timeout)))
             ELSE Goto("poll_get")
       IN Control("poll_check", eff)
    /\ UNCHANGED <<args, env, show_progress, options, reqs, handles, job_id, now, start_time,
                   job, returned, sleeps, term, ncalls, total_size, downloaded,
                   stream, dest, percents>>

\* a loop that swallows the failure and polls again after the sleep
PollTransportRetry(o) == Goto("poll_sleep")

\* lines 129-130: requests.get raises on a connection failure and
\* raise_for_status on a non-2xx answer; nothing in the loop catches either
PollTransportError(o) ==
    Raise(Err(IF o = "conn_error" THEN "ConnectionError" ELSE "HTTPError",
              "", "status"))

LastOr(q, old) == IF q = <<>> THEN old ELSE q[Len(q)]

PollGet ==
    /\ Somebody("poll_get")
    /\ \E inp \in PollInputs :
        LET o == inp.o
            j == inp.j
            d == inp.d
            body(r) ==
              IF o = "json" THEN PollBody(show_progress[r], j)
              ELSE [ctl |-> PollTransportError(o), lines |-> <<>>]
            eff(r) == body(r).ctl
        IN /\ Control("poll_get", eff)
           /\ reqs' = Upd(reqs, "poll_get",
                  LAMBDA r : Append(reqs[r], Req("GET", "/api/jobs/", job_id[r], NoBody)))
           /\ now' = Upd(now, "poll_get", LAMBDA r : now[r] + d)
           /\ job' = Upd(job, "poll_get", LAMBDA r : IF o = "json" THEN j ELSE job[r])
           /\ returned' = Upd(returned, "poll_get",
                  LAMBDA r : IF eff(r).pc = "output" THEN j ELSE returned[r])
           /\ term' = Upd(term, "poll_get", LAMBDA r : LastOr(body(r).lines, term[r]))
           /\ ncalls' = Upd(ncalls, "poll_get", LAMBDA r : ncalls[r] + Len(body(r).lines))
           /\ env' = Upd(env, "poll_get",
                  LAMBDA r : [env[r] EXCEPT !.polls = @ + 1,
                                            !.status = [o |-> o, j |-> j]])
    /\ UNCHANGED <<args, show_progress, options, handles, job_id, start_time,
                   sleeps, total_size, downloaded, stream, dest, percents>>

PollSleep ==
    /\ Somebody("poll_sleep")
    /\ Control("poll_sleep", LAMBDA r : Goto("poll_check"))
    /\ now' = Upd(now, "poll_sleep", LAMBDA r : now[r] + 1)
    /\ sleeps' = Upd(sleeps, "poll_sleep", LAMBDA r : sleeps[r] + 1)
    /\ UNCHANGED <<args, env, show_progress, options, reqs, handles, job_id, start_time,
                   job, returned, term, ncalls, total_size, downloaded,
                   stream, dest, percents>>

-----------------------------------------------------------------------------
(* main, lines 282-294: URL-only mode, or the download to the chosen path *)

\* os.path.splitext(os.path.basename(input))[0] on the inputs of ArgSets
Stem(input) == IF input = "video.mp4" THEN "video" ELSE input

\* the path given with -o is ignored
OutputPathDefault(a) == Stem(a.input) \o "-converted.gif"

\* lines 288-294
OutputPath(a) ==
    IF a.output # "none" THEN a.output
    ELSE Stem(a.input) \o "-converted.gif"

\* a file found at the output path before main runs
Existing(a) == File(OutputPath(a), <<MaxBytes + 1>>)

Output ==
    /\ Somebody("output")
    /\ Control("output",
               LAMBDA r : IF args.url_only THEN Goto("stats") ELSE Goto("download_get"))
    /\ UNCHANGED <<args, env, show_progress, options, reqs, handles, job_id, now,
                   start_time, job, returned, sleeps, term, ncalls, total_size,
                   downloaded, stream, dest, percents>>

-----------------------------------------------------------------------------
(* download_file, lines 203-226 *)

RECURSIVE Sum(_)
Sum(q) == IF q = <<>> THEN 0 ELSE q[1] + Sum(Tail(q))

ContentLengths == {Missing} \cup {Num(n) : n \in 0..MaxBytes}

\* an absent header is taken for a length of one byte
TotalSizeUnknownAsOne(header) == DictGet([h |-> header], "h", Num(1)).n

\* line 213: int(response.headers.get("content-length", 0))
TotalSize(header) == DictGet([h |-> header], "h", Num(0)).n

\* the quotient is truncated before it is scaled
PercentTruncatedFirst(done, total) == IntDiv(done, total) * 100

\* line 221: int(downloaded * 100 / total_size)
Percent(done, total) == IntDiv(done * 100, total)

DownloadInputs ==
    [o : {"ok"}, cl : ContentLengths] \cup [o : {"conn_error", "http_error"}, cl : {Missing}]

\* the destination is opened for writing before the request is made
DownloadGetTruncates ==
    /\ Somebody("download_get")
    /\ \E inp \in DownloadInputs :
        LET eff(r) ==
              IF inp.o = "ok" THEN Goto("download_open")
              ELSE Raise(Err(IF inp.o = "conn_error" THEN "ConnectionError"
                             ELSE "HTTPError", "", "download"))
        IN /\ Control("download_get", eff)
           /\ reqs' = Upd(reqs, "download_get",
                  LAMBDA r : Append(reqs[r], Req("GET", "/api/download/", job_id[r], NoBody)))
           /\ total_size' = Upd(total_size, "download_get",
                  LAMBDA r : IF inp.o = "ok" THEN TotalSize(inp.cl) ELSE total_size[r])
           /\ downloaded' = Upd(downloaded, "download_get", LAMBDA r : 0)
           /\ dest' = Upd(dest, "download_get",
                  LAMBDA r : File(OutputPath(args), <<>>))
           /\ env' = Upd(env, "download_get",
                  LAMBDA r : [env[r] EXCEPT !.dl = inp.o, !.cl = inp.cl])
    /\ UNCHANGED <<args, show_progress, options, handles, job_id, now, start_time,
                   job, returned, sleeps, term, ncalls, stream, percents>>

DownloadGet ==
    /\ Somebody("download_get")
    /\ \E inp \in DownloadInputs :
        LET eff(r) ==
              IF inp.o = "ok" THEN Goto("download_open")
              ELSE Raise(Err(IF inp.o = "conn_error" THEN "ConnectionError"
                             ELSE "HTTPError", "", "download"))
        IN /\ Control("download_get", eff)
           /\ reqs' = Upd(reqs, "download_get",
                  LAMBDA r : Append(reqs[r], Req("GET", "/api/download/", job_id[r], NoBody)))
           /\ total_size' = Upd(total_size, "download_get",
                  LAMBDA r : IF inp.o = "ok" THEN TotalSize(inp.cl) ELSE total_size[r])
           /\ downloaded' = Upd(downloaded, "download_get", LAMBDA r : 0)
           /\ env' = Upd(env, "download_get",
                  LAMBDA r : [env[r] EXCEPT !.dl = inp.o, !.cl = inp.cl])
    /\ UNCHANGED <<args, show_progress, options, handles, job_id, now, start_time,
                   job, returned, sleeps, term, ncalls, stream, dest, percents>>

\* line 216: open(output_path, "wb") creates or truncates the destination
DownloadOpen ==
    /\ Somebody("download_open")
    /\ \E ok \in BOOLEAN :
        /\ Control("download_open",
                   LAMBDA r : IF ok THEN Goto("download_chunk")
                              ELSE Raise(Err("OSError", "", OutputPath(args))))
        /\ dest' = Upd(dest, "download_open",
                       LAMBDA r : IF ok THEN File(OutputPath(args), <<>>)
                                  ELSE dest[r])
    /\ UNCHANGED <<args, env, show_progress, options, reqs, handles, job_id, now,
                   start_time, job, returned, sleeps, term, ncalls, total_size,
                   downloaded, stream, percents>>

\* lines 217-222: one chunk of iter_content is written and reported
DownloadChunk ==
    /\ Somebody("download_chunk")
    /\ \E r \in Runs : pc[r] = "download_chunk" /\ Sum(stream[r]) < MaxBytes
    /\ \E c \in 1..MaxBytes :
        LET reports(r) == show_progress[r] /\ total_size[r] > 0
            shown(r) == print_progress("Downloading",
                            Num(Percent(downloaded[r] + c, total_size[r])),
                            Num(0), "\r")
        IN /\ \A r \in Runs : pc[r] = "download_chunk" => Sum(stream[r]) + c <= MaxBytes
           /\ stream' = Upd(stream, "download_chunk", LAMBDA r : Append(stream[r], c))
           /\ dest' = Upd(dest, "download_chunk",
                  LAMBDA r : File(dest[r].path, Append(dest[r].chunks, c)))
           /\ downloaded' = Upd(downloaded, "download_chunk",
                  LAMBDA r : downloaded[r] + c)
           /\ percents' = Upd(percents, "download_chunk",
                  LAMBDA r : IF reports(r)
                             THEN Append(percents[r], shown(r).line.progress)
                             ELSE percents[r])
           /\ term' = Upd(term, "download_chunk",
                  LAMBDA r : IF reports(r) THEN shown(r).line ELSE term[r])
           /\ ncalls' = Upd(ncalls, "download_chunk",
                  LAMBDA r : IF reports(r) THEN ncalls[r] + 1 ELSE ncalls[r])
    /\ UNCHANGED <<args, env, show_progress, options, pc, exit_code, result, reqs,
                   handles, job_id, now, start_time, job, returned, sleeps,
                   total_size>>

\* the stream ends (the file is closed, lines 224-226 report and return)
\* or breaks (the with-block closes the file and the exception propagates)
DownloadEnd ==
    /\ Somebody("download_chunk")
    /\ \E o \in {"eof", "stream_error"} :
        LET done == print_progress("Downloaded", Num(100), Num(0), "\n")
            reports(r) == show_progress[r] /\ o = "eof"
        IN /\ Control("download_chunk",
                  LAMBDA r : IF o = "eof" THEN Goto("stats")
                             ELSE Raise(Err("ChunkedEncodingError", "", "download")))
           /\ percents' = Upd(percents, "download_chunk",
                  LAMBDA r : IF reports(r) THEN Append(percents[r], done.line.progress)
                             ELSE percents[r])
           /\ term' = Upd(term, "download_chunk",
                  LAMBDA r : IF reports(r) THEN done.line ELSE term[r])
           /\ ncalls' = Upd(ncalls, "download_chunk",
                  LAMBDA r : IF reports(r) THEN ncalls[r] + 1 ELSE ncalls[r])
           /\ env' = Upd(env, "download_chunk",
                  LAMBDA r : [env[r] EXCEPT !.dl = o])
    /\ UNCHANGED <<args, show_progress, options, reqs, handles, job_id, now,
                   start_time, job, returned, sleeps, total_size, downloaded,
                   stream, dest>>

-----------------------------------------------------------------------------
(* main, lines 296-305: the statistics are printed (the sizes only when    *)
(* both are truthy, the dimensions with '?' for an absent field) and main  *)
(* returns                                                                 *)

Stats ==
    /\ Somebody("stats")
    /\ Control("stats", LAMBDA r : Exit(0))
    /\ UNCHANGED <<args, env, show_progress, options, reqs, handles, job_id, now,
                   start_time, job, returned, sleeps, term, ncalls, total_size,
                   downloaded, stream, dest, percents>>

(* main, lines 307-309: Ctrl-C anywhere inside the try block *)

TryBlock == {"health", "upload_open", "upload_post", "poll_start", "poll_check",
             "poll_get", "poll_sleep", "output", "download_get", "download_open",
             "download_chunk", "stats"}

Interrupt(r) ==
    /\ pc[r] \in TryBlock
    /\ LET e == Raise(Err("KeyboardInterrupt", "", ""))
       IN /\ pc' = [pc EXCEPT ![r] = e.pc]
          /\ result' = [result EXCEPT ![r] = e.result]
          /\ exit_code' = [exit_code EXCEPT ![r] = e.exit_code]
          /\ env' = [env EXCEPT ![r].sigint = TRUE]
    /\ UNCHANGED <<args, show_progress, options, reqs, handles, job_id, now,
                   start_time, job, returned, sleeps, term, ncalls, total_size,
                   downloaded, stream, dest, percents>>

(* upload_file, lines 188-192: Ctrl-C while the body of a non-2xx answer   *)
(* is being read.  The POST has returned and the file objects are closed;  *)
(* the bare except of line 190 catches the KeyboardInterrupt like any      *)
(* other exception, the raw text becomes the error and RuntimeError is     *)
(* raised in its place.                                                    *)

UploadInterrupted(r) ==
    /\ pc[r] = "upload_post"
    /\ \E resp \in UploadResponses :
        /\ ~resp.ok
        /\ LET e == Raise(Err("RuntimeError", "Upload failed: ", resp.text))
           IN /\ pc' = [pc EXCEPT ![r] = e.pc]
              /\ result' = [result EXCEPT ![r] = e.result]
              /\ exit_code' = [exit_code EXCEPT ![r] = e.exit_code]
        /\ reqs' = [reqs EXCEPT ![r] =
               Append(@, Req("POST", "/api/upload", Null,
                             [fields |-> UploadFields(handles[r]),
                              options |-> options[r]]))]
        /\ handles' = [handles EXCEPT ![r] = {}]
        /\ env' = [env EXCEPT ![r].sigint = TRUE,
                              ![r].upload = [o |-> "interrupted", ok |-> FALSE,
                                             text |-> resp.text]]
    /\ UNCHANGED <<args, show_progress, options, job_id, now, start_time, job,
                   returned, sleeps, term, ncalls, total_size, downloaded,
                   stream, dest, percents>>

-----------------------------------------------------------------------------
(* Specifications *)

\* the steps driven by the program and the scripted server
Scripted ==
    \/ Validate \/ HealthCheck
    \/ UploadOpen \/ UploadPost
    \/ PollStart \/ PollCheck \/ PollGet \/ PollSleep
    \/ Output
    \/ DownloadGet \/ DownloadOpen \/ DownloadChunk \/ DownloadEnd
    \/ Stats

Next ==
    \/ Scripted
    \/ \E r \in Runs : Interrupt(r)
    \/ \E r \in Runs : UploadInterrupted(r)

Spec == Init /\ [][Next]_vars

\* the poll loop under fairness: invocations in URL-only mode, which end
\* once wait_for_completion has returned or raised
PollInit ==
    /\ args \in {a \in ArgSets : a.input_exists /\ a.bg_image = "none"
                                  /\ a.url_only /\ a.output = "none"}
    /\ show_progress \in [{1} -> BOOLEAN]
    /\ InitRuns({1})

PollNext ==
    \/ Validate \/ HealthCheck
    \/ UploadOpen \/ UploadPost
    \/ PollStart \/ PollCheck \/ PollGet \/ PollSleep
    \/ Output \/ Stats
    \/ Interrupt(1) \/ UploadInterrupted(1)

FairPollSpec == PollInit /\ [][PollNext]_vars /\ WF_vars(PollNext)

\* two invocations on the same command line and the same scripted server,
\* one with progress shown and one with --no-progress, never interrupted
PairInit ==
    /\ args \in ArgSets
    /\ show_progress = [r \in {1, 2} |-> r = 1]
    /\ InitRuns({1, 2})

PairSpec == PairInit /\ [][Scripted]_vars

\* rotate_to_transpose applied by main to every degree in range
RotInit ==
    /\ args \in [input : {"video.mp4"}, input_exists : {TRUE}, bg_image : {"none"},
                 url_only : {TRUE}, output : {"none"},
                 rotate : (-MaxDegrees)..MaxDegrees, timeout : {0}]
    /\ show_progress \in [{1} -> BOOLEAN]
    /\ InitRuns({1})

RotSpec == RotInit /\ [][Validate]_vars

\* the download onto a path that may already hold a file: invocations on an
\* existing input without background image and with no time to wait, the
\* output path free or holding a file larger than any download
DlInit ==
    /\ args \in {a \in ArgSets : a.input_exists /\ a.bg_image = "none"
                                  /\ a.timeout = 0}
    /\ show_progress \in [{1} -> BOOLEAN]
    /\ \E file \in {NoFile, Existing(args)} : InitRunsOn({1}, file)

DlSpec == DlInit /\ [][Next]_vars
-----------------------------------------------------------------------------
(* What the claims speak of *)

PollLoop == {"poll_check", "poll_get", "poll_sleep"}
Terminal == {Str("completed"), Str("failed")}

RequestsTo(r, path) == SelectSeq(reqs[r], LAMBDA q : q.path = path)
StatusGets(r) == Len(RequestsTo(r, "/api/jobs/"))
Posts(r) == Len(RequestsTo(r, "/api/upload"))
HealthGets(r) == Len(RequestsTo(r, "/api/health"))
DownloadGets(r) == Len(RequestsTo(r, "/api/download/"))
Elapsed(r) == now[r] - start_time[r]

\* every field of the snapshot is absent or of the type the data model gives it
WellTyped(j) ==
    /\ j.status.t \in {"str", "missing"}
    /\ j.progress.t \in {"int", "missing"}
    /\ j.current_pass.t \in {"int", "missing"}

-----------------------------------------------------------------------------
(* C1: once the server has answered a status GET with a well-typed         *)
(* Completed snapshot, wait_for_completion has returned exactly that       *)
(* snapshot, one GET was issued per snapshot served, a sleep followed      *)
(* every snapshot but the last, and no GET follows; and whatever it        *)
(* returns is the last snapshot served.                                    *)
C1_ReturnsLastSnapshot ==
    \A r \in Runs :
        LET last == env[r].status
        IN /\ (last.o = "json" /\ last.j.status = Str("completed") /\ WellTyped(last.j))
                => /\ returned[r] = last.j
                   /\ pc[r] \notin PollLoop
                   /\ StatusGets(r) = env[r].polls
                   /\ sleeps[r] = env[r].polls - 1
           /\ returned[r] # NoJob
                => /\ returned[r] = last.j
                   /\ last.j.status = Str("completed")
                   /\ StatusGets(r) = env[r].polls

C1_Witness ==
    \E r \in Runs :
        /\ env[r].polls = 3
        /\ returned[r] = [status |-> Str("completed"), progress |-> Num(100),
                          current_pass |-> Missing, error_message |-> Missing]
        /\ pc[r] = "output"

(* C2: on a Failed snapshot wait_for_completion stops polling and raises   *)
(* the conversion-failed error whose message is the snapshot's             *)
(* error_message, or "Unknown error" when that is missing, null or empty;  *)
(* it returns no snapshot.                                                 *)
C2_FailedMessage ==
    \A r \in Runs :
        LET last == env[r].status
            em == last.j.error_message
        IN (last.o = "json" /\ last.j.status = Str("failed") /\ WellTyped(last.j))
              => /\ result[r] = Err("RuntimeError", "Conversion failed: ",
                                    IF Truthy(em) THEN em.s ELSE "Unknown error")
                 /\ returned[r] = NoJob
                 /\ pc[r] = "exited"
                 /\ StatusGets(r) = env[r].polls

(* C3: TimeoutError is raised exactly by a timeout check that finds the    *)
(* elapsed time strictly greater than the timeout; a check at elapsed <=   *)
(* timeout goes on to the GET; no terminal status has been observed while  *)
(* the loop runs; the loop is left only by a timeout, an interrupt, or a   *)
(* GET that failed or brought a terminal or ill-typed snapshot; and the    *)
(* loop is always left.                                                    *)
C3_Timeout ==
    /\ [][/\ (result'[1].type = "TimeoutError" /\ result[1].type # "TimeoutError")
               => (pc[1] = "poll_check"
                   /\ Elapsed(1) > TicksPerSecond * args.timeout)
          /\ (pc[1] = "poll_check" /\ pc'[1] # "poll_check"
              /\ result'[1].type # "KeyboardInterrupt")
               => IF Elapsed(1) > TicksPerSecond * args.timeout
                  THEN result'[1].type = "TimeoutError" /\ pc'[1] = "exited"
                  ELSE result'[1] = NoError /\ pc'[1] = "poll_get"
          /\ (pc[1] \in PollLoop /\ pc'[1] \notin PollLoop)
               => \/ result'[1].type \in {"TimeoutError", "KeyboardInterrupt"}
                  \/ env'[1].status.o # "json"
                  \/ env'[1].status.j.status \in Terminal
                  \/ ~WellTyped(env'[1].status.j)]_vars
    /\ [](pc[1] \in PollLoop => env[1].status.j.status \notin Terminal)
    /\ (pc[1] = "poll_start") ~> (pc[1] \notin PollLoop \cup {"poll_start"})

\* the third GET of a one-second budget is issued at elapsed = timeout, and
\* the check after the next sleep raises
C3_Witness ==
    /\ result[1].type = "TimeoutError"
    /\ args.timeout = 1
    /\ StatusGets(1) = 3
    /\ Elapsed(1) = 3

(* C4: a status GET that fails in transport ends the run at once with that *)
(* error: the failing GET is the last request, no sleep follows it, no     *)
(* snapshot is returned, whatever remains of the timeout.                  *)
C4_PollErrorAborts ==
    \A r \in Runs :
        env[r].status.o \in {"conn_error", "http_error"}
          => /\ pc[r] = "exited"
             /\ exit_code[r] = 1
             /\ result[r].type =
                  (IF env[r].status.o = "conn_error" THEN "ConnectionError"
                   ELSE "HTTPError")
             /\ returned[r] = NoJob
             /\ reqs[r][Len(reqs[r])].path = "/api/jobs/"
             /\ StatusGets(r) = env[r].polls
             /\ sleeps[r] = env[r].polls - 1

C4_Witness ==
    \E r \in Runs :
        /\ env[r].status.o = "http_error"
        /\ env[r].polls = 2
        /\ Elapsed(r) < TicksPerSecond * args.timeout
        /\ pc[r] = "exited"

(* C5: a non-2xx answer to the upload raises the submission error carrying *)
(* the text of the body's error field, or the raw body when the body is    *)
(* not a JSON object or has no such field; a 2xx answer whose jobs list is *)
(* absent (or null) or empty raises "No job created"; a submission error   *)
(* is raised in no other case, and no job id is returned in either.  (A    *)
(* call interrupted while it reads the body of a non-2xx answer is the     *)
(* matter of C12.)                                                         *)
SubmissionError(e) ==
    e.type = "RuntimeError" /\ e.prefix \in {"Upload failed: ", "No job created"}

C5_SubmissionErrors ==
    \A r \in Runs :
        LET u == env[r].upload
            body == ParseJson(u.text)
            hasError == body.t = "dict" /\ body.error # Missing
            nojobs == body.t = "dict" /\ body.jobs \in {Missing, Null, List(<<>>)}
        IN /\ (u.o = "response" /\ ~u.ok)
                => /\ result[r].type = "RuntimeError"
                   /\ result[r].prefix = "Upload failed: "
                   /\ hasError /\ body.error.t = "str"
                        => result[r].detail = body.error.s
                   /\ ~hasError => result[r].detail = u.text
                   /\ job_id[r] = Null
           /\ (u.o = "response" /\ u.ok /\ nojobs)
                => /\ result[r] = Err("RuntimeError", "No job created", "")
                   /\ job_id[r] = Null
           /\ SubmissionError(result[r])
                => u.o \in {"response", "interrupted"} /\ (~u.ok \/ nojobs)

C5_Witness ==
    \E r \in Runs :
        /\ env[r].upload = [o |-> "response", ok |-> FALSE, text |-> "{error: bad file}"]
        /\ result[r] = Err("RuntimeError", "Upload failed: ", "bad file")

(* C6 as claimed: every call of upload_file that has returned or raised on *)
(* its own has issued exactly one POST to /api/upload.                     *)
UploadEnded(r) ==
    env[r].opened \in {"file_error", "bg_error"} \/ env[r].upload.o # "none"

C6_EveryCallPostsOnce ==
    \A r \in Runs : UploadEnded(r) => Posts(r) = 1

(* C6, amended: a call of upload_file whose open() calls succeed issues    *)
(* exactly one POST to /api/upload, whatever the answer, carrying `files`  *)
(* and the options main built under `options`, and `background` if and     *)
(* only if a background path was given and found; a call in which an       *)
(* open() fails issues none; on a 2xx answer listing jobs the id of the    *)
(* first one is returned.                                                  *)
C6_OnePostFirstJob ==
    \A r \in Runs :
        LET u == env[r].upload
            body == ParseJson(u.text)
            post == RequestsTo(r, "/api/upload")
            withBg == args.bg_image = "present" /\ env[r].opened = "opened"
        IN /\ Posts(r) <= 1
           /\ env[r].opened \in {"file_error", "bg_error"} => Posts(r) = 0
           /\ u.o # "none"
                => /\ Posts(r) = 1
                   /\ post[1].method = "POST"
                   /\ post[1].body.fields =
                        {"files", "options"} \cup (IF withBg THEN {"background"} ELSE {})
                   /\ post[1].body.options = BuildOptions(args)
           /\ (u.o = "response" /\ u.ok /\ body.t = "dict"
               /\ body.jobs.t = "list" /\ body.jobs.q # <<>>
               /\ body.jobs.q[1].id # Missing)
                => /\ job_id[r] = body.jobs.q[1].id
                   /\ ~SubmissionError(result[r])
                   /\ pc[r] # "upload_post"

C6_Witness ==
    \E r \in Runs :
        /\ env[r].upload = [o |-> "response", ok |-> TRUE,
                            text |-> "{jobs: [{id: abc123}, {id: def456}]}"]
        /\ job_id[r] = Str("abc123")
        /\ Posts(r) = 1
        /\ "background" \in reqs[r][Len(reqs[r])].body.fields
        /\ pc[r] = "poll_start"

(* C7: once upload_file has been left, by return or by exception, none of  *)
(* the file objects it opened is still open.                               *)
C7_HandlesClosed ==
    \A r \in Runs : pc[r] \notin {"upload_open", "upload_post"} => handles[r] = {}

(* C8: rotate_to_transpose maps 0 to 0, 90 to 1, 180 to 3, 270 to 2 and    *)
(* every other degree to 0, and main gets a value for every degree.        *)
C8_RotationTable ==
    \A r \in Runs :
        /\ pc[r] # "validate" => options[r] # Null
        /\ options[r] # Null =>
             options[r].transpose =
                (IF args.rotate = 90 THEN 1
                 ELSE IF args.rotate = 180 THEN 3
                 ELSE IF args.rotate = 270 THEN 2
                 ELSE 0)

C8_Witness ==
    /\ args.rotate = 270
    /\ pc[1] = "health"
    /\ options[1].transpose = 2

(* C9: in a download with content-length N > 0 the destination holds the   *)
(* chunks received, in order; when the stream has ended with N bytes       *)
(* delivered, N bytes were written and the percents reported are           *)
(* floor(100 * bytes so far / N) per chunk and then 100: non-decreasing,   *)
(* within 0..100, ending at 100.                                           *)
RECURSIVE PrefixSum(_, _)
PrefixSum(q, i) == IF i = 0 THEN 0 ELSE q[i] + PrefixSum(q, i - 1)

C9_DownloadBytesAndPercents ==
    \A r \in Runs :
        (dest[r] # NoFile /\ total_size[r] > 0)
          => /\ dest[r].chunks = stream[r]
             /\ downloaded[r] = Sum(stream[r])
             /\ (env[r].dl = "eof" /\ Sum(stream[r]) = total_size[r])
                  => /\ Sum(dest[r].chunks) = total_size[r]
                     /\ show_progress[r]
                          => /\ Len(percents[r]) = Len(stream[r]) + 1
                             /\ \A i \in 1..Len(stream[r]) :
                                  percents[r][i] =
                                    (100 * PrefixSum(stream[r], i)) \div total_size[r]
                             /\ \A i \in 1..Len(percents[r]) :
                                  percents[r][i] \in 0..100
                             /\ \A i \in 1..(Len(percents[r]) - 1) :
                                  percents[r][i] <= percents[r][i + 1]
                             /\ percents[r][Len(percents[r])] = 100
                             /\ percents[r][Len(stream[r])] = 100

C9_Witness ==
    \E r \in Runs :
        /\ env[r].dl = "eof"
        /\ total_size[r] = 4
        /\ stream[r] = <<2, 1, 1>>
        /\ dest[r] = File(OutputPath(args), <<2, 1, 1>>)
        /\ percents[r] = <<50, 75, 100, 100>>

(* C10: the run with --no-progress never calls print_progress, and when    *)
(* both runs of a pair have ended they have issued the same requests,      *)
(* slept as often, written the same bytes and ended alike.                 *)
C10_ProgressOnlyChangesOutput ==
    /\ ncalls[2] = 0
    /\ (pc[1] = "exited" /\ pc[2] = "exited")
         => /\ reqs[1] = reqs[2]
            /\ sleeps[1] = sleeps[2]
            /\ dest[1] = dest[2]
            /\ result[1] = result[2]
            /\ exit_code[1] = exit_code[2]

(* C11: every error of a phase ends the run with exit code 1 (a health     *)
(* check that cannot connect, a submission error, a failed status GET, a   *)
(* failed conversion, a timeout, a download error), the request that       *)
(* failed is the last one the run has issued and was issued once, and exit *)
(* code 0 is reached only after the server was reached, the upload         *)
(* returned a job id, the poll returned a Completed snapshot and, unless   *)
(* in URL-only mode, the download stream ended.                            *)
CoreError(e) == e.type \notin {"none", "KeyboardInterrupt"}
LastPath(r) == reqs[r][Len(reqs[r])].path

C11_ErrorsExitOne ==
    \A r \in Runs :
        /\ (CoreError(result[r]) \/ env[r].health = "conn_error")
             => pc[r] = "exited" /\ exit_code[r] = 1
        /\ env[r].health \in {"conn_error", "read_timeout"}
             => exit_code[r] = 1 /\ reqs[r] = <<Req("GET", "/api/health", Null, NoBody)>>
        /\ (SubmissionError(result[r]) \/ env[r].upload.o = "conn_error")
             => exit_code[r] = 1 /\ LastPath(r) = "/api/upload" /\ Posts(r) = 1
        /\ (\/ env[r].status.o \in {"conn_error", "http_error"}
            \/ result[r].prefix = "Conversion failed: "
            \/ result[r].type = "TimeoutError")
             => /\ exit_code[r] = 1
                /\ LastPath(r) = "/api/jobs/"
                /\ StatusGets(r) = env[r].polls
        /\ env[r].dl \in {"conn_error", "http_error", "stream_error"}
             => /\ exit_code[r] = 1
                /\ LastPath(r) = "/api/download/"
                /\ DownloadGets(r) = 1
        /\ exit_code[r] = 0
             => /\ result[r] = NoError
                /\ env[r].health = "reached"
                /\ env[r].upload.o = "response" /\ env[r].upload.ok
                /\ job_id[r] # Null
                /\ env[r].status.o = "json"
                /\ env[r].status.j.status = Str("completed")
                /\ returned[r] = env[r].status.j
                /\ IF args.url_only THEN env[r].dl = "none" ELSE env[r].dl = "eof"

\* the download is refused after two polls: five requests, exit code 1
C11_Witness ==
    \E r \in Runs :
        /\ env[r].dl = "http_error"
        /\ env[r].polls = 2
        /\ Len(reqs[r]) = 5
        /\ exit_code[r] = 1

(* C12: a run that received an interrupt in any phase of the try block     *)
(* (health check, submit, poll loop and its sleep, download) has ended     *)
(* as aborted, with exit code 130 and the KeyboardInterrupt as its cause,  *)
(* never with exit code 1 or 0.                                            *)
C12_InterruptAborts ==
    \A r \in Runs :
        env[r].sigint
          => /\ pc[r] = "exited"
             /\ exit_code[r] = 130
             /\ result[r].type = "KeyboardInterrupt"

(* C13: the line print_progress rendered last has a bar of bar_width       *)
(* cells: floor(bar_width * percent / 100) filled ones, a number within    *)
(* 0..bar_width, followed by the empty ones that make up the width.        *)
C13_BarOfThirtyCells ==
    \A r \in Runs :
        ncalls[r] > 0
          => /\ term[r].filled = (bar_width * term[r].progress) \div 100
             /\ term[r].filled \in 0..bar_width
             /\ term[r].filled + term[r].empty = bar_width

(* C14: the requests of a run are issued phase after phase: the health     *)
(* check, then the upload POST, only once the health check reached the     *)
(* server, then the status GETs, only once the upload returned a job id    *)
(* and all for that id, then the download GET, for the same id and only    *)
(* once the poll has returned a Completed snapshot (the last answer of the *)
(* job endpoint: not Failed, not an error, and no timeout was raised).     *)
Phase(path) ==
    CASE path = "/api/health" -> 1
      [] path = "/api/upload" -> 2
      [] path = "/api/jobs/" -> 3
      [] path = "/api/download/" -> 4

C14_PhasesInOrder ==
    \A r \in Runs :
        LET q == reqs[r]
            n == Len(q)
        IN /\ \A i \in 1..(n - 1) : Phase(q[i].path) <= Phase(q[i + 1].path)
           /\ n >= 1 => q[1].path = "/api/health"
           /\ n >= 2 => q[2].path = "/api/upload" /\ env[r].health = "reached"
           /\ n >= 3
                => /\ q[3].path = "/api/jobs/"
                   /\ env[r].upload.o = "response" /\ env[r].upload.ok
                   /\ job_id[r] # Null
           /\ \A i \in 3..n :
                /\ q[i].path \in {"/api/jobs/", "/api/download/"}
                /\ q[i].id = job_id[r]
                /\ q[i].path = "/api/download/" => i = n
           /\ pc[r] \in PollLoop \cup {"poll_start"} => job_id[r] # Null /\ n >= 2
           /\ ((n >= 1 /\ q[n].path = "/api/download/")
               \/ pc[r] \in {"download_get", "download_open", "download_chunk"})
                => /\ n >= 3
                   /\ env[r].status.o = "json"
                   /\ env[r].status.j.status = Str("completed")
                   /\ returned[r] = env[r].status.j
                   /\ result[r].type # "TimeoutError"

\* health check, upload, two polls and the download of job abc123
C14_Witness ==
    \E r \in Runs :
        /\ Len(reqs[r]) = 5
        /\ StatusGets(r) = 2
        /\ reqs[r][5] = Req("GET", "/api/download/", Str("abc123"), NoBody)
        /\ pc[r] = "download_chunk"

(* C15: with every call returning and each sleep advancing the clock by    *)
(* one poll interval, wait_for_completion issues at most 2 * timeout + 1   *)
(* status GETs and always ends; once it has ended on its own after         *)
(* well-typed snapshots, exactly one of these holds: it returned a         *)
(* Completed snapshot, it raised the conversion-failed error, a status GET *)
(* failed, it raised TimeoutError.                                         *)
PollOutcomes(r) ==
    {o \in {"completed", "failed", "transport", "timeout"} :
        CASE o = "completed" ->
               returned[r] # NoJob /\ returned[r].status = Str("completed")
          [] o = "failed" ->
               result[r].type = "RuntimeError"
                 /\ result[r].prefix = "Conversion failed: "
          [] o = "transport" ->
               env[r].status.o \in {"conn_error", "http_error"}
                 /\ result[r].type \in {"ConnectionError", "HTTPError"}
          [] o = "timeout" -> result[r].type = "TimeoutError"}

\* wait_for_completion was called and has been left
PollEnded(r) == job_id[r] # Null /\ pc[r] \notin PollLoop \cup {"poll_start"}

C15_PollTerminates ==
    /\ [](StatusGets(1) <= TicksPerSecond * args.timeout + 1)
    /\ [](PollEnded(1) /\ WellTyped(env[1].status.j)
            /\ ~(env[1].sigint /\ returned[1] = NoJob)
          => Cardinality(PollOutcomes(1)) = 1)
    /\ [](~PollEnded(1) => PollOutcomes(1) = {})
    /\ (pc[1] = "poll_start") ~> PollEnded(1)

\* a budget of one second is used to the last GET: the third one, issued at
\* elapsed = timeout, brings the Completed snapshot
C15_Witness ==
    /\ args.timeout = 1
    /\ StatusGets(1) = 2 * args.timeout + 1
    /\ Elapsed(1) = TicksPerSecond * args.timeout
    /\ PollOutcomes(1) = {"completed"}

(* C16: an iteration of the poll loop is: the timeout check, one status    *)
(* GET, the look at the status, a sleep of one poll interval.  A GET is    *)
(* issued only from behind a check that found elapsed <= timeout, and      *)
(* that check precedes the first GET too; the check is reached only from   *)
(* the start of the loop or from the sleep; a check that finds the budget  *)
(* exceeded ends the run with no further GET; the sleep is reached only    *)
(* from a GET that brought a non-terminal snapshot.                        *)
Budget == TicksPerSecond * args.timeout

C16_IterationOrder ==
    [][/\ StatusGets(1)' # StatusGets(1)
            => /\ pc[1] = "poll_get"
               /\ StatusGets(1)' = StatusGets(1) + 1
               /\ Elapsed(1) <= Budget
       /\ (pc'[1] = "poll_get" /\ pc[1] # "poll_get")
            => pc[1] = "poll_check" /\ Elapsed(1) <= Budget
       /\ (pc'[1] = "poll_check" /\ pc[1] # "poll_check")
            => pc[1] \in {"poll_start", "poll_sleep"}
       /\ (pc[1] = "poll_check" /\ pc'[1] # "poll_check" /\ Elapsed(1) > Budget)
            => pc'[1] = "exited" /\ reqs'[1] = reqs[1]
       /\ (pc[1] = "poll_get" /\ pc'[1] # "poll_get" /\ ~env'[1].sigint)
            => StatusGets(1)' = StatusGets(1) + 1
       /\ (pc'[1] = "poll_sleep" /\ pc[1] # "poll_sleep")
            => /\ pc[1] = "poll_get"
               /\ env'[1].status.o = "json"
               /\ env'[1].status.j.status \notin Terminal
       /\ sleeps'[1] # sleeps[1]
            => /\ pc[1] = "poll_sleep" /\ pc'[1] = "poll_check"
               /\ sleeps'[1] = sleeps[1] + 1
               /\ now'[1] = now[1] + 1
               /\ env[1].status.j.status \notin Terminal
               /\ reqs'[1] = reqs[1]]_vars

\* with no time to wait the first GET is still issued (elapsed 0 is not
\* over the budget); the check after the sleep raises instead of a second GET
C16_Witness ==
    /\ args.timeout = 0
    /\ result[1].type = "TimeoutError"
    /\ StatusGets(1) = 1
    /\ sleeps[1] = 1
    /\ LastPath(1) = "/api/jobs/"

(* C17: a well-typed snapshot whose status is neither "completed" nor      *)
(* "failed" (uploading, queued, processing, compressing, a string the      *)
(* client does not know, or no status field at all) makes                  *)
(* wait_for_completion neither return nor raise: it goes to the sleep and  *)
(* from the sleep to the next iteration, whatever snapshot came before     *)
(* (another transient status, a later or an earlier one, a higher or a     *)
(* lower progress).                                                        *)
Transient(j) == WellTyped(j) /\ j.status \notin Terminal

C17_TransientKeepsPolling ==
    /\ [](\A r \in Runs :
            (env[r].status.o = "json" /\ Transient(env[r].status.j))
              => /\ returned[r] = NoJob
                 /\ result[r].type \in {"none", "TimeoutError", "KeyboardInterrupt"}
                 /\ pc[r] \in PollLoop \cup {"exited"}
                 /\ env[r].polls - 1 <= sleeps[r] /\ sleeps[r] <= env[r].polls)
    /\ [][\A prev \in Snapshots \cup {NoJob} :
            /\ (/\ pc[1] = "poll_get" /\ pc'[1] # "poll_get"
                /\ env[1].status.j = prev
                /\ env'[1].status.o = "json" /\ Transient(env'[1].status.j)
                /\ ~env'[1].sigint)
                 => /\ pc'[1] = "poll_sleep"
                    /\ result'[1] = NoError
                    /\ returned'[1] = NoJob
                    /\ job'[1] = env'[1].status.j
            /\ (pc[1] = "poll_sleep" /\ pc'[1] # "poll_sleep" /\ ~env'[1].sigint)
                 => pc'[1] = "poll_check" /\ result'[1] = NoError]_vars

\* the third snapshot of a run reports an unknown status and the client,
\* showing it titlecased, sleeps towards a fourth iteration
C17_Witness ==
    \E r \in Runs :
        /\ env[r].polls = 3
        /\ env[r].status.j.status = Str("paused")
        /\ term[r].status = "Paused"
        /\ pc[r] = "poll_sleep"

(* C18: in a download whose answer carries no content-length header, or   *)
(* one of zero, total_size is 0 and no percent is reported while chunks    *)
(* arrive; every chunk received is in the destination, in order; and when  *)
(* the stream has ended the function has returned normally, having         *)
(* reported nothing but the final 100 (nothing at all with --no-progress). *)
LengthUnknown(r) ==
    env[r].dl \in {"ok", "eof", "stream_error"} /\ env[r].cl \in {Missing, Num(0)}

C18_UnknownLength ==
    \A r \in Runs :
        LengthUnknown(r)
          => /\ total_size[r] = 0
             /\ (pc[r] = "download_chunk" \/ stream[r] # <<>> \/ env[r].dl = "eof")
                  => dest[r] = File(OutputPath(args), stream[r])
             /\ downloaded[r] = Sum(stream[r])
             /\ env[r].dl # "eof" => percents[r] = <<>>
             /\ env[r].dl = "eof"
                  => /\ percents[r] = (IF show_progress[r] THEN <<100>> ELSE <<>>)
                     /\ show_progress[r]
                          => term[r].status = "Downloaded" /\ term[r].end = "\n"
                     /\ result[r].type \in {"none", "KeyboardInterrupt"}
                     /\ pc[r] = "stats" \/ exit_code[r] \in {0, 130}

\* no content-length: two chunks are written and only the final line is shown
C18_Witness ==
    \E r \in Runs :
        /\ env[r].cl = Missing
        /\ env[r].dl = "eof"
        /\ stream[r] = <<1, 2>>
        /\ dest[r] = File(OutputPath(args), <<1, 2>>)
        /\ percents[r] = <<100>>
        /\ exit_code[r] = 0

(* C19: in URL-only mode no download GET is issued and the file at the     *)
(* output path is as it was before the run (absent, or the file found      *)
(* there); once the poll has returned, such a run only has the URL to      *)
(* print and exits 0.  Without URL-only mode a run whose poll returned     *)
(* issues exactly one download GET, and whatever it writes goes to the     *)
(* path given with -o or else to "<stem of the input>-converted.gif".      *)
Untouched(r) == dest[r] \in {NoFile, Existing(args)}

C19_UrlOnlyOrOneDownload ==
    \A r \in Runs :
        /\ DownloadGets(r) <= 1
        /\ DownloadGets(r) = 1 => returned[r] # NoJob /\ ~args.url_only
        /\ args.url_only
             => /\ DownloadGets(r) = 0
                /\ env[r].dl = "none"
                /\ Untouched(r)
                /\ (returned[r] # NoJob /\ ~env[r].sigint)
                     => pc[r] \in {"output", "stats"} \/ exit_code[r] = 0
        /\ (~args.url_only /\ returned[r] # NoJob /\ ~env[r].sigint
            /\ pc[r] \notin {"output", "download_get"})
             => DownloadGets(r) = 1
        /\ ~Untouched(r)
             => /\ ~args.url_only
                /\ DownloadGets(r) = 1
                /\ dest[r].path = (IF args.output # "none" THEN args.output
                                   ELSE "video-converted.gif")

\* video.mp4 converted without -o: one download, saved as video-converted.gif
C19_Witness ==
    \E r \in Runs :
        /\ args.input = "video.mp4" /\ args.output = "none" /\ ~args.url_only
        /\ DownloadGets(r) = 1
        /\ dest[r].t = "file" /\ dest[r].path = "video-converted.gif"
        /\ dest[r].chunks = stream[r] /\ stream[r] # <<>>
        /\ exit_code[r] = 0

(* C20: a download GET that cannot be made or is answered non-2xx raises   *)
(* and leaves the file at the output path as it was, absent or with its    *)
(* content; the destination changes only after a 2xx answer has been       *)
(* received, first by being created or truncated.                          *)
C20_DestinationUntouchedOnError ==
    /\ [](\A r \in Runs :
            /\ env[r].dl \in {"conn_error", "http_error"}
                 => /\ Untouched(r)
                    /\ pc[r] = "exited" /\ exit_code[r] = 1
                    /\ result[r].type \in {"ConnectionError", "HTTPError"}
            /\ env[r].dl = "none" => Untouched(r))
    /\ [][\A r \in Runs :
            /\ pc[r] = "download_get" => dest'[r] = dest[r]
            /\ dest'[r] # dest[r]
                 => /\ env[r].dl = "ok"
                    /\ pc[r] \in {"download_open", "download_chunk"}
                    /\ pc[r] = "download_open"
                         => dest'[r] = File(OutputPath(args), <<>>)]_vars

\* the download is refused and the file that was at the output path is intact
C20_Witness ==
    \E r \in Runs :
        /\ env[r].dl = "http_error"
        /\ dest[r] = Existing(args)
        /\ result[r].type = "HTTPError"
====
